---- MODULE Spec2Model ----
(***************************************************************************)
(* The Solver class of fenicsR13 as a state machine.                       *)
(*                                                                         *)
(* The repository holds two revisions of the class:                        *)
(*   "src"       src/src/solver.py        (modes heat, stress, coupled)    *)
(*   "fenicsR13" src/fenicsR13/src/solver.py  (modes heat, stress)         *)
(* The variable impl says which revision of the code an instance runs.     *)
(*                                                                         *)
(* Framework objects (elements, spaces, forms, functions) are records      *)
(* holding what the Solver code can observe about them.  Degree-of-freedom *)
(* values are exact rationals <<numerator, denominator>>: floating-point   *)
(* rounding is not modelled.                                               *)
(***************************************************************************)
EXTENDS Integers, Sequences, FiniteSets, TLC

VARIABLES impl, params, mesh, time,
          elems, fspaces, mxd_elems, mxd_fspaces,
          form_a, form_b, sol, esol, errors, df_ds, df_dS, last,
          tensor_in, tensor_out, heat_py

vars == <<impl, params, mesh, time, elems, fspaces, mxd_elems, mxd_fspaces,
          form_a, form_b, sol, esol, errors, df_ds, df_dS, last,
          tensor_in, tensor_out, heat_py>>

\* the state of a Solver instance
solver_vars == <<impl, params, mesh, time, elems, fspaces, mxd_elems,
                 mxd_fspaces, form_a, form_b, sol, esol, errors, df_ds, df_dS,
                 last>>

(***************************************************************************)
(* Bounds of the model.                                                    *)
(***************************************************************************)
\* boundary (edge) ids of the mesh are 0..MaxEdgeId
MaxEdgeId == 2
\* configured polynomial degrees are 1..MaxDegree
MaxDegree == 6
\* the pressure space has 1..MaxDofs degrees of freedom in all
MaxDofs == 2
\* solved degree-of-freedom values are 0..MaxValue
MaxValue == 1
\* the time argument of the constructor is 0..MaxTime
MaxTime == 1

(***************************************************************************)
(* Python's None, and small helpers.                                       *)
(***************************************************************************)
None == [kind |-> "None"]

Impls == {"src", "fenicsR13"}
Modes == {"heat", "stress", "coupled"}
Vars == {"theta", "s", "p", "u", "sigma"}

Range(f) == {f[i] : i \in DOMAIN f}

RECURSIVE Flatten(_)
Flatten(qq) == IF qq = <<>> THEN <<>> ELSE Head(qq) \o Flatten(Tail(qq))

\* position of x in the sequence q (0 when absent)
IndexOf(q, x) ==
    IF \E i \in DOMAIN q : q[i] = x
    THEN CHOOSE i \in DOMAIN q : q[i] = x /\ \A j \in 1..(i-1) : q[j] # x
    ELSE 0

(***************************************************************************)
(* Solver.__init__: the rank of each variable.                             *)
(***************************************************************************)
var_ranks == [theta |-> 0, s |-> 1, p |-> 0, u |-> 1, sigma |-> 2]

\* self.output_folder = self.params["case_name"] + "/" in src/src/solver.py,
\* self.params["output_folder"] in src/fenicsR13/src/solver.py, whose
\* parameters hold that key
output_folder(prm) ==
    IF "output_folder" \in DOMAIN prm THEN prm.output_folder
    ELSE prm.case_name \o "/"

(***************************************************************************)
(* Framework elements and spaces, as the records the code can tell apart.  *)
(***************************************************************************)
FiniteElement(family, cell, degree) ==
    [kind |-> "FiniteElement", family |-> family, cell |-> cell,
     degree |-> degree, symmetry |-> FALSE]

VectorElement(family, cell, degree) ==
    [kind |-> "VectorElement", family |-> family, cell |-> cell,
     degree |-> degree, symmetry |-> FALSE]

TensorElement(family, cell, degree, symmetry) ==
    [kind |-> "TensorElement", family |-> family, cell |-> cell,
     degree |-> degree, symmetry |-> symmetry]

\* a mixed element keeps its sub-elements in the order given; "of" names
\* the entries of self.elems (or of self.mxd_elems) they were taken from
MixedElement(names, elements) ==
    [kind |-> "MixedElement", of |-> names, sub |-> elements]

FunctionSpace(msh, element) ==
    [kind |-> "FunctionSpace", cell |-> msh.cell, element |-> element]

\* df.TensorFunctionSpace(mesh, family, degree): no symmetry
TensorFunctionSpace(msh, family, degree) ==
    FunctionSpace(msh, TensorElement(family, msh.cell, degree, FALSE))

(***************************************************************************)
(* setup_function_spaces                                                   *)
(***************************************************************************)
\* the element of one variable with the tensor element left non-symmetric
ElementFor_NoSymmetry(prm, cell, var) ==
    LET e == prm.elements[var].shape
        deg == prm.elements[var].degree
    IN  CASE var_ranks[var] = 0 -> FiniteElement(e, cell, deg)
          [] var_ranks[var] = 1 -> VectorElement(e, cell, deg)
          [] var_ranks[var] = 2 -> TensorElement(e, cell, deg, FALSE)

\* the element of one variable
ElementFor(prm, cell, var) ==
    LET e == prm.elements[var].shape
        deg == prm.elements[var].degree
    IN  CASE var_ranks[var] = 0 -> FiniteElement(e, cell, deg)
          [] var_ranks[var] = 1 -> VectorElement(e, cell, deg)
          [] var_ranks[var] = 2 -> TensorElement(e, cell, deg, TRUE)

heat_elems == <<"theta", "s">>
stress_elems == <<"p", "u", "sigma">>

ElemList(el, names) == [i \in DOMAIN names |-> el[names[i]]]

\* the coupled mixed element: one flat list in src/src/solver.py, the two
\* lists as two nested mixed elements in src/fenicsR13/src/solver.py
CoupledElement(i, el) ==
    IF i = "src"
    THEN MixedElement(heat_elems \o stress_elems,
                      ElemList(el, heat_elems \o stress_elems))
    ELSE MixedElement(<<"heat", "stress">>,
                      <<MixedElement(heat_elems, ElemList(el, heat_elems)),
                        MixedElement(stress_elems, ElemList(el, stress_elems))>>)

MixedElems(i, el) ==
    [heat |-> MixedElement(heat_elems, ElemList(el, heat_elems)),
     stress |-> MixedElement(stress_elems, ElemList(el, stress_elems)),
     coupled |-> CoupledElement(i, el)]

Returned(op) == [op |-> op, outcome |-> "ok", msg |-> "", written |-> <<>>,
                 solved |-> <<>>, mean |-> <<>>, raw |-> <<>>]

Raised(op, msg) == [Returned(op) EXCEPT !.outcome = "raised", !.msg = msg]

SetupFunctionSpaces ==
    LET el == [v \in Vars |-> ElementFor(params, mesh.cell, v)]
        mx == MixedElems(impl, el)
    IN  /\ elems' = el
        /\ fspaces' = [v \in Vars |-> FunctionSpace(mesh, el[v])]
        /\ mxd_elems' = mx
        /\ mxd_fspaces' = [m \in Modes |-> FunctionSpace(mesh, mx[m])]
        /\ last' = Returned("setup_function_spaces")
        /\ UNCHANGED <<tensor_in, tensor_out, heat_py, esol, errors, impl, params, mesh, time, form_a, form_b, sol,
                       df_ds, df_dS>>

(***************************************************************************)
(* check_bcs                                                               *)
(***************************************************************************)
\* check_bcs without the "[0] +": id 0 needs an entry like any other
RECURSIVE check_bcs_zero_needs_bcs(_, _)
check_bcs_zero_needs_bcs(boundary_ids, bcs_specified) ==
    IF boundary_ids = <<>> THEN -1
    ELSE IF ~(Head(boundary_ids) \in bcs_specified)
         THEN Head(boundary_ids)
         ELSE check_bcs_zero_needs_bcs(Tail(boundary_ids), bcs_specified)

\* the first edge id of the array that is neither 0 nor a key of bcs,
\* or -1 when the loop ends without raising
RECURSIVE check_bcs(_, _)
check_bcs(boundary_ids, bcs_specified) ==
    IF boundary_ids = <<>> THEN -1
    ELSE IF ~(Head(boundary_ids) \in ({0} \cup bcs_specified))
         THEN Head(boundary_ids)
         ELSE check_bcs(Tail(boundary_ids), bcs_specified)

BcsMessage(edge_id) == "Mesh edge id " \o ToString(edge_id) \o " has no bcs!"

CheckBcs ==
    LET bad == check_bcs(mesh.boundaries, params.bcs)
    IN  /\ last' = IF bad = -1 THEN Returned("check_bcs")
                   ELSE Raised("check_bcs", BcsMessage(bad))
        /\ UNCHANGED <<tensor_in, tensor_out, heat_py, esol, errors, impl, params, mesh, time, elems, fspaces, mxd_elems,
                       mxd_fspaces, form_a, form_b, sol, df_ds, df_dS>>

(***************************************************************************)
(* assemble: trial and test functions                                      *)
(***************************************************************************)
\* the i-th function of df.TrialFunctions(w) / df.TestFunctions(w),
\* w = self.mxd_fspaces[space]
Arg(space, comp) == [space |-> space, comp |-> comp]
NoArg == Arg("none", 0)

\* tuple unpacking: the k-th name receives the k-th function of the space
Unpack(names, space) ==
    [n \in Range(names) |-> Arg(space, IndexOf(names, n))]

\* (theta, s, p, u, sigma) = df.TrialFunctions(w_coupled), and the
\* unpackings of w_heat and w_stress
TrialNames ==
    [heat |-> <<"theta", "s">>,
     stress |-> <<"p", "u", "sigma">>,
     coupled |-> <<"theta", "s", "p", "u", "sigma">>]

\* (kappa, r, q, v, psi) = df.TestFunctions(w_coupled), likewise
TestNames ==
    [heat |-> <<"kappa", "r">>,
     stress |-> <<"q", "v", "psi">>,
     coupled |-> <<"kappa", "r", "q", "v", "psi">>]

\* the spaces whose functions assemble unpacks: src/src/solver.py takes the
\* heat and the stress functions whenever the mode is not coupled, the
\* older revision only those of its mode (and none in coupled mode)
UnpackedSpaces(i, mode) ==
    IF i = "src"
    THEN (IF mode = "coupled" THEN {"coupled"} ELSE {"heat", "stress"})
    ELSE (IF mode = "coupled" THEN {} ELSE {mode})

\* the local variables of assemble bound to trial and test functions
Locals(i, mode) ==
    LET sp == UnpackedSpaces(i, mode)
        names == UNION {Range(TrialNames[m]) \cup Range(TestNames[m]) : m \in sp}
    IN  [n \in names |->
            LET m == CHOOSE m \in sp :
                        n \in Range(TrialNames[m]) \cup Range(TestNames[m])
            IN  IF n \in Range(TrialNames[m])
                THEN Unpack(TrialNames[m], m)[n]
                ELSE Unpack(TestNames[m], m)[n]]

(***************************************************************************)
(* assemble: the integrals of the weak forms.  A term is one integrand     *)
(* with its measure, its subdomain (-1: the whole measure), its weight and *)
(* the local variables tr and te it is written in ("-": no trial function, *)
(* a right-hand side), with the trial and test functions they are bound to.*)
(***************************************************************************)
Term(eq, measure, sub, coeff, expr, L, tr, te) ==
    [eq |-> eq, measure |-> measure, sub |-> sub, coeff |-> coeff,
     expr |-> expr, tr |-> tr, te |-> te,
     trial |-> IF tr = "-" THEN NoArg ELSE L[tr], test |-> L[te]]

Form(terms) == [kind |-> "Form", terms |-> terms]

\* the heat equations a1, a2 and right-hand sides l1, l2
HeatA(L, use_coeffs) ==
    IF use_coeffs
    THEN {Term("a1", "dx", -1, "+12/5*tau", "inner(dev3d(grad(s)),grad(r))", L, "s", "r"),
          Term("a1", "dx", -1, "+2/3*(1/tau)", "inner(s,r)", L, "s", "r"),
          Term("a1", "dx", -1, "-(5/2)", "theta*div(r)", L, "theta", "r"),
          Term("a1", "ds", -1, "+5/(4*xi_tilde)", "s_n*r_n", L, "s", "r"),
          Term("a1", "ds", -1, "+11/10*xi_tilde", "s_t*r_t", L, "s", "r"),
          Term("a2", "dx", -1, "-", "div(s)*kappa", L, "s", "kappa")}
    ELSE {Term("a1", "dx", -1, "+tau", "inner(dev3d(grad(s)),grad(r))", L, "s", "r"),
          Term("a1", "dx", -1, "+(1/tau)", "inner(s,r)", L, "s", "r"),
          Term("a1", "dx", -1, "-", "theta*div(r)", L, "theta", "r"),
          Term("a1", "ds", -1, "+1/(xi_tilde)", "s_n*r_n", L, "s", "r"),
          Term("a1", "ds", -1, "+xi_tilde", "s_t*r_t", L, "s", "r"),
          Term("a2", "dx", -1, "-", "div(s)*kappa", L, "s", "kappa")}

HeatL(L, use_coeffs, bcs) ==
    {Term("l1", "ds", bc, IF use_coeffs THEN "-5.0/2.0" ELSE "-1",
          "r_n*theta_w", L, "-", "r") : bc \in bcs}
    \cup {Term("l2", "dx", -1, "-", "f_heat*kappa", L, "-", "kappa")}

\* the stress equations (a3, a4, a5 / l3, l4, l5 in src/src/solver.py,
\* a1, a2, a3 / l1, l2, l3 in the older revision), written only in the
\* use_coeffs branch
StressA(i, L) ==
    LET e1 == IF i = "src" THEN "a3" ELSE "a1"
        e2 == IF i = "src" THEN "a4" ELSE "a2"
        e3 == IF i = "src" THEN "a5" ELSE "a3"
    IN  {Term(e1, "dx", -1, "+2*tau", "innerOfDevOfGrad2AndGrad2(sigma,psi)", L, "sigma", "psi"),
         Term(e1, "dx", -1, "+(1/tau)", "innerOfTracefree2(sigma,psi)", L, "sigma", "psi"),
         Term(e1, "dx", -1, "-2", "dot(u,div(sym(psi)))", L, "u", "psi"),
         Term(e1, "ds", -1, IF i = "src" THEN "+21/10*xi_tilde" ELSE "+21/(10*xi_tilde)",
              "sigma_nn*psi_nn", L, "sigma", "psi"),
         Term(e1, "ds", -1, "+2*xi_tilde",
              "(sigma_tt+(1/2)*sigma_nn)*(psi_tt+(1/2)*psi_nn)", L, "sigma", "psi"),
         Term(e1, "ds", -1, "+(2/xi_tilde)", "sigma_nt*psi_nt", L, "sigma", "psi"),
         Term(e2, "dx", -1, "+", "dot(div(sigma),v)", L, "sigma", "v"),
         Term(e2, "dx", -1, "+", "dot(grad(p),v)", L, "p", "v"),
         Term(e3, "dx", -1, "+", "dot(u,grad(q))", L, "u", "q")}

StressL(i, L, bcs) ==
    LET e1 == IF i = "src" THEN "l3" ELSE "l1"
        e2 == IF i = "src" THEN "l4" ELSE "l2"
        e3 == IF i = "src" THEN "l5" ELSE "l3"
    IN  {Term(e1, "ds", bc, "-2.0", "psi_nt*v_t", L, "-", "psi") : bc \in bcs}
        \cup {Term(e2, "dx", -1, "+", "Constant(0)*div(v)", L, "-", "v"),
              Term(e3, "dx", -1, "-", "f_mass*q", L, "-", "q")}

\* the stress stabilization with the pressure jump weighted by h_avg**3
StabStress_PressureCubed(L, use_cip) ==
    IF use_cip
    THEN {Term("stab_stress", "dS", -1, "+delta_2*h_avg**3",
               "dot(jump(grad(u),n),jump(grad(v),n))", L, "u", "v"),
          Term("stab_stress", "dS", -1, "-delta_3*h_avg**3",
               "jump(grad(p),n)*jump(grad(q),n)", L, "p", "q")}
    ELSE {}

\* the stabilization integrals: empty (the code's 0) unless use_cip
StabHeat(L, use_cip) ==
    IF use_cip
    THEN {Term("stab_heat", "dS", -1, "-delta_1*h_avg**3",
               "jump(grad(theta),n)*jump(grad(kappa),n)", L, "theta", "kappa")}
    ELSE {}

StabStress(L, use_cip) ==
    IF use_cip
    THEN {Term("stab_stress", "dS", -1, "+delta_2*h_avg**3",
               "dot(jump(grad(u),n),jump(grad(v),n))", L, "u", "v"),
          Term("stab_stress", "dS", -1, "-delta_3*h_avg",
               "jump(grad(p),n)*jump(grad(q),n)", L, "p", "q")}
    ELSE {}

\* whether the names the mode's sum reads were assigned: the stress
\* equations exist only in the use_coeffs branch
StressNamesBound(prm) == prm.use_coeffs

\* "Combine all equations": the pair (form_a, form_b) of the mode
Combine(i, prm, L) ==
    CASE prm.mode = "heat" ->
           [a |-> Form(HeatA(L, prm.use_coeffs) \cup StabHeat(L, prm.use_cip)),
            b |-> Form(HeatL(L, prm.use_coeffs, prm.bcs))]
      [] prm.mode = "stress" ->
           [a |-> Form(StressA(i, L) \cup StabStress(L, prm.use_cip)),
            b |-> Form(StressL(i, L, prm.bcs))]
      [] prm.mode = "coupled" ->
           [a |-> Form(HeatA(L, prm.use_coeffs) \cup StabHeat(L, prm.use_cip)
                       \cup StressA(i, L) \cup StabStress(L, prm.use_cip)),
            b |-> Form(HeatL(L, prm.use_coeffs, prm.bcs) \cup StressL(i, L, prm.bcs))]

\* what one call of assemble does: whether it raises (and what), whether
\* it got as far as reassigning df.ds and df.dS, and the forms it sets
AssembleResult(raised, msg, measures, forms, a, b) ==
    [raised |-> raised, msg |-> msg, measures |-> measures,
     forms |-> forms, a |-> a, b |-> b]

\* assemble with the measures defined before the boundary conditions are
\* checked
assemble_measures_first(i, prm, msh, spaces) ==
    LET bad == check_bcs(msh.boundaries, prm.bcs)
        sp == UnpackedSpaces(i, prm.mode)
    IN  IF bad # -1
        THEN AssembleResult(TRUE, BcsMessage(bad), TRUE, FALSE, None, None)
        ELSE IF \E m \in sp : spaces[m] = None
        THEN AssembleResult(TRUE, "TrialFunctions(None)", TRUE, FALSE, None, None)
        ELSE IF i = "fenicsR13" /\ prm.mode = "coupled"
        THEN AssembleResult(FALSE, "", TRUE, FALSE, None, None)
        ELSE IF prm.mode \in {"stress", "coupled"} /\ ~StressNamesBound(prm)
        THEN AssembleResult(TRUE, "UnboundLocalError", TRUE, FALSE, None, None)
        ELSE AssembleResult(FALSE, "", TRUE, TRUE,
                            Combine(i, prm, Locals(i, prm.mode)).a,
                            Combine(i, prm, Locals(i, prm.mode)).b)

assemble(i, prm, msh, spaces) ==
    LET bad == check_bcs(msh.boundaries, prm.bcs)
        sp == UnpackedSpaces(i, prm.mode)
        L == Locals(i, prm.mode)
    IN  IF bad # -1
        THEN AssembleResult(TRUE, BcsMessage(bad), FALSE, FALSE, None, None)
        ELSE IF \E m \in sp : spaces[m] = None
        THEN AssembleResult(TRUE, "TrialFunctions(None)", TRUE, FALSE, None, None)
        ELSE IF i = "fenicsR13" /\ prm.mode = "coupled"
        THEN AssembleResult(FALSE, "", TRUE, FALSE, None, None)
        ELSE IF prm.mode \in {"stress", "coupled"} /\ ~StressNamesBound(prm)
        THEN AssembleResult(TRUE, "UnboundLocalError", TRUE, FALSE, None, None)
        ELSE AssembleResult(FALSE, "", TRUE, TRUE,
                            Combine(i, prm, L).a, Combine(i, prm, L).b)

Measure(type, msh) ==
    [kind |-> "Measure", type |-> type,
     subdomain_data |-> [kind |-> "MeshFunction", array |-> msh.boundaries]]

Assemble ==
    LET r == assemble(impl, params, mesh, mxd_fspaces)
    IN  /\ form_a' = IF r.forms THEN r.a ELSE form_a
        /\ form_b' = IF r.forms THEN r.b ELSE form_b
        /\ df_ds' = IF r.measures THEN Measure("ds", mesh) ELSE df_ds
        /\ df_dS' = IF r.measures THEN Measure("dS", mesh) ELSE df_dS
        /\ last' = IF r.raised THEN Raised("assemble", r.msg)
                   ELSE Returned("assemble")
        /\ UNCHANGED <<tensor_in, tensor_out, heat_py, esol, errors, impl, params, mesh, time, elems, fspaces, mxd_elems,
                       mxd_fspaces, sol>>

(***************************************************************************)
(* Exact rationals <<n, d>>, d > 0, in lowest terms.                       *)
(***************************************************************************)
Abs(x) == IF x < 0 THEN -x ELSE x

RECURSIVE Gcd(_, _)
Gcd(a, b) == IF b = 0 THEN a ELSE Gcd(b, a % b)

Rat(n, d) ==
    LET g == Gcd(Abs(n), Abs(d))
        sg == IF d < 0 THEN -1 ELSE 1
    IN  <<(sg * n) \div g, (sg * d) \div g>>

RatAdd(x, y) == Rat(x[1] * y[2] + y[1] * x[2], x[2] * y[2])
RatSub(x, y) == Rat(x[1] * y[2] - y[1] * x[2], x[2] * y[2])
RatDivInt(x, k) == Rat(x[1], x[2] * k)

RECURSIVE RatSum(_)
RatSum(q) == IF q = <<>> THEN <<0, 1>> ELSE RatAdd(Head(q), RatSum(Tail(q)))

(***************************************************************************)
(* Functions.  A function lives in a space; "origin" says which component  *)
(* of which mixed solution it is a view of (NoArg: a function of its own). *)
(* "values" are its degree-of-freedom values, one sequence per process in  *)
(* rank order; they are modelled for the pressure only.                    *)
(***************************************************************************)
Function(space, origin, values) ==
    [kind |-> "Function", space |-> space, origin |-> origin,
     values |-> values, name |-> "f", label |-> "f"]

\* sol.split(): the k-th sub-function of a function of the mixed space w
Split(msh, w_name, w, pvalues) ==
    [k \in DOMAIN w.element.sub |->
        Function(FunctionSpace(msh, w.element.sub[k]), Arg(w_name, k),
                 IF w.element.of[k] = "p" THEN pvalues ELSE <<>>)]

(***************************************************************************)
(* calc_sf_mean                                                            *)
(***************************************************************************)
\* v.sum() / v.size(): sum and size of the whole distributed vector
GlobalMean(values) ==
    RatDivInt(RatSum(Flatten(values)), Len(Flatten(values)))

\* np.mean(vector()[:]): the mean of the values the calling process owns
LocalMean(values, rank) ==
    RatDivInt(RatSum(values[rank]), Len(values[rank]))

\* calc_sf_mean as the mean of the locally owned values in both revisions
calc_sf_mean_local(i, values, rank) == LocalMean(values, rank)

\* the value calc_sf_mean returns on process rank
calc_sf_mean(i, values, rank) ==
    IF i = "src" THEN GlobalMean(values) ELSE LocalMean(values, rank)

\* calc_sf_mean as every process of the run evaluates it
MeanOnRanks(i, values) ==
    [r \in DOMAIN values |-> calc_sf_mean(i, values, r)]

(***************************************************************************)
(* solve                                                                   *)
(***************************************************************************)
\* the solved pressure values: what the linear solver may return, stored
\* as the mesh is partitioned
RECURSIVE PValues(_)
PValues(partition) ==
    IF partition = <<>> THEN {<<>>}
    ELSE {<<own>> \o rest :
             own \in [1..Head(partition) -> {<<x, 1>> : x \in 0..MaxValue}],
             rest \in PValues(Tail(partition))}

\* a heat solution holds no pressure
SolvedPValues(mode, partition) ==
    IF mode = "heat" THEN {<<>>} ELSE PValues(partition)

\* the coupled split assigned stress fields first
SolTargets_StressFirst ==
    [heat |-> <<"theta", "s">>,
     stress |-> <<"p", "u", "sigma">>,
     coupled |-> <<"p", "u", "sigma", "theta", "s">>]

\* the tuple of self.sol keys the split of the mode's solution is
\* assigned to
SolTargets ==
    [heat |-> <<"theta", "s">>,
     stress |-> <<"p", "u", "sigma">>,
     coupled |-> <<"theta", "s", "p", "u", "sigma">>]

\* (self.sol[...], ...) = sol.split()
AssignSplit(old, targets, parts) ==
    [v \in Vars |-> IF v \in Range(targets) THEN parts[IndexOf(targets, v)]
                    ELSE old[v]]

\* "Scale pressure to have zero mean": p_i on every process
ZeroMeanPressure(i, space, p) ==
    LET p_i == Function(space, NoArg, p.values)
        mean_p_value == MeanOnRanks(i, p_i.values)
    IN  [p_i EXCEPT !.values =
            [r \in DOMAIN p_i.values |->
                [k \in DOMAIN p_i.values[r] |->
                    RatSub(p_i.values[r][k], mean_p_value[r])]]]

\* the modes in which solve scales the pressure
ScalesPressure(i, mode) ==
    IF i = "src" THEN mode \in {"stress", "coupled"} ELSE mode = "stress"

\* the modes solve has a branch for
SolvesMode(i, mode) == i = "src" \/ mode \in {"heat", "stress"}

linear_solver(i, mode) ==
    IF i = "src" \/ mode = "heat" THEN "mumps" ELSE "direct"

Solve ==
    LET w == mxd_fspaces[params.mode]
    IN  /\ UNCHANGED <<tensor_in, tensor_out, heat_py, esol, errors, impl, params, mesh, time, elems, fspaces, mxd_elems,
                       mxd_fspaces, form_a, form_b, df_ds, df_dS>>
        /\ IF ~SolvesMode(impl, params.mode)
           THEN /\ sol' = sol
                /\ last' = Returned("solve")
           ELSE IF w = None
           THEN /\ sol' = sol
                /\ last' = Raised("solve", "Function(None)")
           ELSE IF form_a = None \/ form_b = None
           THEN /\ sol' = sol
                /\ last' = Raised("solve", "df.solve")
           ELSE \E pv \in SolvedPValues(params.mode, mesh.partition) :
                LET parts == Split(mesh, params.mode, w, pv)
                    split == AssignSplit(sol, SolTargets[params.mode], parts)
                    scaled == ZeroMeanPressure(impl, fspaces["p"], split["p"])
                IN  /\ sol' = IF ScalesPressure(impl, params.mode)
                              THEN [split EXCEPT !["p"] = scaled]
                              ELSE split
                    /\ last' = [Returned("solve") EXCEPT
                                  !.solved = <<[space |-> w,
                                                solver |-> linear_solver(impl, params.mode)]>>,
                                  !.raw = IF ScalesPressure(impl, params.mode)
                                          THEN pv ELSE <<>>,
                                  !.mean = IF ScalesPressure(impl, params.mode)
                                           THEN MeanOnRanks(impl, pv) ELSE <<>>]

\* print(self.calc_sf_mean(self.sol["p"])): the method called on the
\* solved pressure
CalcSfMean ==
    /\ sol["p"] # None
    /\ last' = [Returned("calc_sf_mean") EXCEPT
                  !.raw = sol["p"].values,
                  !.mean = MeanOnRanks(impl, sol["p"].values)]
    /\ UNCHANGED <<tensor_in, tensor_out, heat_py, esol, errors, impl, params, mesh, time, elems, fspaces, mxd_elems,
                   mxd_fspaces, form_a, form_b, sol, df_ds, df_dS>>

(***************************************************************************)
(* write_xdmf                                                              *)
(***************************************************************************)
\* "for degree in range(5)": the number of degrees the loop tests
TestedDegrees == 5

\* str(self.time)
str(n) == ToString(n)

\* the file name without the time
XdmfFilename_NoTime(prm, t, name) == output_folder(prm) \o name \o ".xdmf"

XdmfFilename(prm, t, name) == output_folder(prm) \o name \o "_" \o str(t) \o ".xdmf"

\* df.project(field, space): a new function of the target space
project(fld, space) == Function(space, NoArg, fld.values)

\* the loop testing the degree of the loop variable itself, not degree + 1
RECURSIVE RemoveSymmetry_OffByOne(_, _, _)
RemoveSymmetry_OffByOne(msh, fld, degree) ==
    IF degree >= TestedDegrees
    THEN [field |-> fld, projections |-> 0]
    ELSE IF fld.space.element = TensorElement("Lagrange", "triangle", degree, TRUE)
         THEN [field |-> project(fld, TensorFunctionSpace(msh, "Lagrange", degree)),
               projections |-> 1]
         ELSE RemoveSymmetry_OffByOne(msh, fld, degree + 1)

\* the loop over the tested degrees, from degree on: the field to write and
\* the number of projections made
RECURSIVE RemoveSymmetry(_, _, _)
RemoveSymmetry(msh, fld, degree) ==
    IF degree >= TestedDegrees
    THEN [field |-> fld, projections |-> 0]
    ELSE IF fld.space.element = TensorElement("Lagrange", "triangle", degree + 1, TRUE)
         THEN [field |-> project(fld, TensorFunctionSpace(msh, "Lagrange", degree + 1)),
               projections |-> 1]
         ELSE RemoveSymmetry(msh, fld, degree + 1)

\* field.rename(name, name)
rename(fld, name, label) == [fld EXCEPT !.name = name, !.label = label]

\* one call write_xdmf(name, field): the file it writes
write_xdmf(prm, msh, t, name, fld) ==
    LET r == RemoveSymmetry(msh, fld, 0)
    IN  [name |-> name,
         filename |-> XdmfFilename(prm, t, name),
         field |-> rename(r.field, name, name),
         timestamp |-> t,
         given |-> fld.space.element,
         projections |-> r.projections]

\* the callers inside the class hand write_xdmf fresh functions of the
\* configured spaces under these names (calc_errors)
CallerNames(v) == {"difference_" \o v, v \o "_e"}

WriteXdmf ==
    \E v \in Vars : \E name \in CallerNames(v) :
        /\ fspaces[v] # None
        /\ last' = [Returned("write_xdmf") EXCEPT
                      !.written = <<write_xdmf(params, mesh, time, name,
                                               Function(fspaces[v], NoArg, <<>>))>>]
        /\ UNCHANGED <<tensor_in, tensor_out, heat_py, esol, errors, impl, params, mesh, time, elems, fspaces, mxd_elems,
                       mxd_fspaces, form_a, form_b, sol, df_ds, df_dS>>

(***************************************************************************)
(* write_solutions, write_parameters                                       *)
(***************************************************************************)
\* the keys of self.sol in the order the dict is iterated
SolKeys == <<"theta", "s", "p", "u", "sigma">>

\* the writes of "for field in sols", from the k-th key on
RECURSIVE SolutionWrites(_, _, _, _, _)
SolutionWrites(prm, msh, t, sols, k) ==
    IF k > Len(SolKeys) THEN <<>>
    ELSE (IF sols[SolKeys[k]] # None
          THEN <<write_xdmf(prm, msh, t, SolKeys[k], sols[SolKeys[k]])>>
          ELSE <<>>) \o SolutionWrites(prm, msh, t, sols, k + 1)

\* a field written without projection is renamed in place: it is the very
\* function self.sol holds
RenamedInPlace(msh, sols) ==
    [v \in Vars |->
        IF sols[v] # None /\ RemoveSymmetry(msh, sols[v], 0).projections = 0
        THEN rename(sols[v], v, v)
        ELSE sols[v]]

WriteSolutions ==
    /\ sol' = RenamedInPlace(mesh, sol)
    /\ last' = [Returned("write_solutions") EXCEPT
                  !.written = SolutionWrites(params, mesh, time, sol, 1)]
    /\ UNCHANGED <<tensor_in, tensor_out, heat_py, esol, errors, impl, params, mesh, time, elems, fspaces, mxd_elems,
                   mxd_fspaces, form_a, form_b, df_ds, df_dS>>

\* f_heat and f_mass interpolated into a Lagrange space of degree 1
ParameterField(msh) ==
    Function(FunctionSpace(msh, FiniteElement("Lagrange", msh.cell, 1)), NoArg, <<>>)

WriteParameters ==
    /\ last' = [Returned("write_parameters") EXCEPT
                  !.written = <<write_xdmf(params, mesh, time, "f_heat", ParameterField(mesh)),
                                write_xdmf(params, mesh, time, "f_mass", ParameterField(mesh))>>]
    /\ UNCHANGED <<tensor_in, tensor_out, heat_py, esol, errors, impl, params, mesh, time, elems, fspaces, mxd_elems,
                   mxd_fspaces, form_a, form_b, sol, df_ds, df_dS>>

(***************************************************************************)
(* load_exact_solution, calc_errors                                        *)
(***************************************************************************)
\* coupled mode running the heat block only
ModeFields_CoupledAsHeat(i, mode) ==
    (IF mode = "heat" \/ mode = "coupled" THEN heat_elems ELSE <<>>)
    \o (IF mode = "stress" THEN stress_elems ELSE <<>>)

\* the fields of the blocks 'if self.mode == "heat" [or "coupled"]' and
\* 'if self.mode == "stress" [or "coupled"]' that run in a mode, in the
\* order they run; src/fenicsR13/src/solver.py has no 'or "coupled"'
ModeFields(i, mode) ==
    (IF mode = "heat" \/ (i = "src" /\ mode = "coupled") THEN heat_elems ELSE <<>>)
    \o (IF mode = "stress" \/ (i = "src" /\ mode = "coupled") THEN stress_elems
        ELSE <<>>)

\* the class of the compiled exact solution each field is taken from
ExactNames ==
    [theta |-> "Temperature", s |-> "Heatflux", p |-> "Pressure",
     u |-> "Velocity", sigma |-> "Stress"]

CompiledExpression(name, degree) ==
    [kind |-> "CompiledExpression", of |-> name, degree |-> degree]

LoadExactSolution ==
    /\ esol' = [v \in Vars |->
                  IF v \in Range(ModeFields(impl, params.mode))
                  THEN CompiledExpression(ExactNames[v], 2)
                  ELSE esol[v]]
    /\ last' = Returned("load_exact_solution")
    /\ UNCHANGED <<tensor_in, tensor_out, heat_py, errors, impl, params, mesh, time, elems, fspaces, mxd_elems,
                   mxd_fspaces, form_a, form_b, sol, df_ds, df_dS>>

\* the error a calc_*field_errors helper returns for a field: one number
\* for a scalar field, a list with one number per component otherwise
ErrorValue(norm, v) ==
    [kind |-> "error", norm |-> norm, field |-> v,
     per_component |-> var_ranks[v] > 0]

\* d[k] = value for every k of fields: an assignment to a key the dict
\* lacks adds the key
PutErrors(d, fields, norm) ==
    [x \in DOMAIN d \cup Range(fields) |->
        IF x \in Range(fields) THEN ErrorValue(norm, x) ELSE d[x]]

\* the two files each helper writes, for the fields from the k-th on
RECURSIVE ErrorWrites(_, _, _, _, _, _)
ErrorWrites(prm, msh, t, spaces, fields, k) ==
    IF k > Len(fields) THEN <<>>
    ELSE LET v == fields[k]
             fresh == Function(spaces[v], NoArg, <<>>)
         IN  <<write_xdmf(prm, msh, t, "difference_" \o v, fresh),
               write_xdmf(prm, msh, t, v \o "_e", fresh)>>
             \o ErrorWrites(prm, msh, t, spaces, fields, k + 1)

CalcErrors ==
    LET fields == ModeFields(impl, params.mode)
        ready == \A k \in DOMAIN fields :
                    /\ fspaces[fields[k]] # None
                    /\ sol[fields[k]] # None
                    /\ esol[fields[k]] # None
    IN  /\ UNCHANGED <<tensor_in, tensor_out, heat_py, esol, impl, params,
                       mesh, time, elems, fspaces, mxd_elems, mxd_fspaces,
                       form_a, form_b, sol, df_ds, df_dS>>
        /\ IF ~ready
           THEN /\ errors' = errors
                /\ last' = Raised("calc_errors", "df.interpolate")
           ELSE /\ errors' =
                     [f |-> [l2 |-> PutErrors(errors.f.l2, fields, "L2")],
                      v |-> [linf |-> PutErrors(errors.v.linf, fields, "linf")]]
                /\ last' = [Returned("calc_errors") EXCEPT
                              !.written = ErrorWrites(params, mesh, time,
                                                      fspaces, fields, 1)]

(***************************************************************************)
(* The tensor functions nested in assemble (src/fenicsR13/src/solver.py).  *)
(* A tensor is a sequence of sequences of exact rationals; the index i of  *)
(* the code is the index i + 1 here.                                       *)
(***************************************************************************)
Zero == <<0, 1>>
One == <<1, 1>>

RatMul(x, y) == Rat(x[1] * y[1], x[2] * y[2])
RatNeg(x) == <<-x[1], x[2]>>

\* df.inner of two rank-2 tensors, and of two rank-3 tensors
InnerRank2(a, b) ==
    RatSum(Flatten([i \in DOMAIN a |->
                       [j \in DOMAIN a[i] |-> RatMul(a[i][j], b[i][j])]]))

InnerRank3(a, b) ==
    RatSum([i \in DOMAIN a |-> InnerRank2(a[i], b[i])])

\* the last entry as the docstring of gen3dTracefreeTensor gives it
gen3dTracefreeTensor_AsDocumented(rank2) ==
    <<<<rank2[1][1], rank2[1][2], Zero>>,
      <<rank2[2][1], rank2[2][2], Zero>>,
      <<Zero, Zero, RatNeg(RatAdd(rank2[2][1], rank2[2][2]))>>>>

gen3dTracefreeTensor(rank2) ==
    <<<<rank2[1][1], rank2[1][2], Zero>>,
      <<rank2[2][1], rank2[2][2], Zero>>,
      <<Zero, Zero, RatSub(RatNeg(rank2[1][1]), rank2[2][2])>>>>

\* the inner product without the mixed zz terms
innerOfTracefree2_NoMixedTerms(rank2_1, rank2_2) ==
    RatSum(<<InnerRank2(rank2_1, rank2_2),
             RatMul(rank2_1[1][1], rank2_2[1][1]),
             RatMul(rank2_1[2][2], rank2_2[2][2])>>)

innerOfTracefree2(rank2_1, rank2_2) ==
    RatSum(<<InnerRank2(rank2_1, rank2_2),
             RatMul(rank2_1[1][1], rank2_2[1][1]),
             RatMul(rank2_1[1][1], rank2_2[2][2]),
             RatMul(rank2_1[2][2], rank2_2[1][1]),
             RatMul(rank2_1[2][2], rank2_2[2][2])>>)

\* symm_ijk of sym3: the mean over all permutations of the indices
symm(rank3, i, j, k) ==
    RatDivInt(RatSum(<<rank3[i][j][k], rank3[i][k][j], rank3[j][i][k],
                       rank3[j][k][i], rank3[k][i][j], rank3[k][j][i]>>), 6)

sym3(rank3) ==
    [i \in 1..3 |-> [j \in 1..3 |-> [k \in 1..3 |-> symm(rank3, i, j, k)]]]

\* x * delta[a, b], with delta = df.Identity(3)
TimesDelta(x, a, b) == IF a = b THEN x ELSE Zero

\* sym3(rank3)[i, l, l], summed over the repeated index l
sym3_ill(rank3, i) == RatSum([l \in 1..3 |-> symm(rank3, i, l, l)])

\* the deviator with the trace part weighted as for two dimensions
dev3_QuarterTrace(rank3) ==
    LET tracefree_ijk(i, j, k) ==
            RatSub(symm(rank3, i, j, k),
                   RatDivInt(RatSum(<<TimesDelta(sym3_ill(rank3, i), j, k),
                                      TimesDelta(sym3_ill(rank3, j), i, k),
                                      TimesDelta(sym3_ill(rank3, k), i, j)>>),
                             4))
    IN  [i \in 1..3 |-> [j \in 1..3 |-> [k \in 1..3 |-> tracefree_ijk(i, j, k)]]]

dev3(rank3) ==
    LET tracefree_ijk(i, j, k) ==
            RatSub(symm(rank3, i, j, k),
                   RatDivInt(RatSum(<<TimesDelta(sym3_ill(rank3, i), j, k),
                                      TimesDelta(sym3_ill(rank3, j), i, k),
                                      TimesDelta(sym3_ill(rank3, k), i, j)>>),
                             5))
    IN  [i \in 1..3 |-> [j \in 1..3 |-> [k \in 1..3 |-> tracefree_ijk(i, j, k)]]]

\* the inner product with the symmetric part in place of the deviator
InnerOfDev3_SymOnly(x, y) == InnerRank3(sym3(x), y)

\* df.inner(dev3(...), ...) of innerOfDevOfGrad2AndGrad2, of the two rank-3
\* gradients it is given
InnerOfDev3(x, y) == InnerRank3(dev3(x), y)

TensorResult(op, value) == [op |-> op, value |-> value]

\* each function is applied to the inputs given for it
Gen3dTracefreeTensor ==
    /\ tensor_in # None
    /\ tensor_in.rank = 2
    /\ tensor_out = None
    /\ tensor_out' = TensorResult("gen3dTracefreeTensor",
                                  gen3dTracefreeTensor(tensor_in.rank2_1))
    /\ UNCHANGED <<solver_vars, tensor_in, heat_py>>

InnerOfTracefree2 ==
    /\ tensor_in # None
    /\ tensor_in.rank = 2
    /\ tensor_out = None
    /\ tensor_out' = TensorResult("innerOfTracefree2",
                                  innerOfTracefree2(tensor_in.rank2_1,
                                                    tensor_in.rank2_2))
    /\ UNCHANGED <<solver_vars, tensor_in, heat_py>>

Dev3 ==
    /\ tensor_in # None
    /\ tensor_in.rank = 3
    /\ tensor_out = None
    /\ tensor_out' = TensorResult("dev3", dev3(tensor_in.rank3_1))
    /\ UNCHANGED <<solver_vars, tensor_in, heat_py>>

InnerOfDevOfGrad2AndGrad2 ==
    /\ tensor_in # None
    /\ tensor_in.rank = 3
    /\ tensor_out = None
    /\ tensor_out' = TensorResult("innerOfDevOfGrad2AndGrad2",
                                  InnerOfDev3(tensor_in.rank3_1,
                                              tensor_in.rank3_2))
    /\ UNCHANGED <<solver_vars, tensor_in, heat_py>>

(***************************************************************************)
(* The case script cases/heatSystem/heat.py, from "Solving system..." on.  *)
(* An expression is evaluated exactly at mesh vertices with integer        *)
(* coordinates: its value is                                               *)
(*     poly + log_coeff * C1 * log_fn(sqrt(r2)) + C2                       *)
(* with poly and log_coeff rationals; the logarithm of 1 is 0 whatever its *)
(* base, and is kept as a symbol anywhere else.                            *)
(***************************************************************************)
RatDiv(x, y) == Rat(x[1] * y[2], x[2] * y[1])

\* d.Constant(0.1)
TAU == <<1, 10>>

\* a decimal literal: its sign and the digits after "0." or "2."
Decimal(sign, whole, digits) == [sign |-> sign, whole |-> whole, digits |-> digits]

\* d.Expression("-0.40855716127979214"), d.Expression("2.4471587630476663")
C1 == Decimal("-", "0", <<4, 0, 8, 5, 5, 7, 1, 6, 1, 2, 7, 9, 7, 9, 2, 1, 4>>)
C2 == Decimal("+", "2", <<4, 4, 7, 1, 5, 8, 7, 6, 3, 0, 4, 7, 6, 6, 6, 3>>)

\* log(R) of the expression at squared radius r2
LogTerm(fn, coeff, r2) ==
    IF r2 = 1 THEN [coeff |-> Zero, fn |-> "none"]
    ELSE [coeff |-> coeff, fn |-> fn]

\* (-20*C1*log(R) + (5*pow(R,4))/4 - 2*pow(R,2)*(24*pow(TAU,2)+5))/(75*TAU)
\* + C2 at the point (x, y), with the logarithm fn
ThetaExact(fn, tau, c1, c2, x, y) ==
    LET r2 == x * x + y * y
        tau2 == RatMul(tau, tau)
        bracket == RatAdd(RatMul(<<24, 1>>, tau2), <<5, 1>>)
        denom == RatMul(<<75, 1>>, tau)
        numer == RatSub(Rat(5 * r2 * r2, 4), RatMul(<<2 * r2, 1>>, bracket))
        log == LogTerm(fn, RatDiv(<<-20, 1>>, denom), r2)
    IN  [poly |-> RatDiv(numer, denom), log_coeff |-> log.coeff,
         log_fn |-> log.fn, c1 |-> c1, c2 |-> c2]

\* THETA_E, lines 122-124: log2 is the logarithm to base 2
THETA_E(x, y) == ThetaExact("log2", TAU, C1, C2, x, y)

\* d.interpolate(THETA_E, X0): the values at the vertices
interpolate(vertices) ==
    [k \in DOMAIN vertices |-> THETA_E(vertices[k][1], vertices[k][2])]

\* the field a File.write wrote, under the name it was renamed to
PvdWrite(file, name, values) == [file |-> file, name |-> name, values |-> values]

HeatScript(pc, vertices, theta_e, files) ==
    [kind |-> "heat.py", pc |-> pc, vertices |-> vertices,
     THETA_E |-> theta_e, files |-> files]

HeatStep(from, to, theta_e, written) ==
    /\ heat_py # None
    /\ heat_py.pc = from
    /\ heat_py' = HeatScript(to, heat_py.vertices, theta_e,
                             heat_py.files \o written)
    /\ UNCHANGED <<solver_vars, tensor_in, tensor_out>>

\* lines 95-98
HeatSolve == HeatStep("solve", "write_s", heat_py.THETA_E, <<>>)

\* lines 102-104
HeatWriteS ==
    HeatStep("write_s", "write_theta", heat_py.THETA_E,
             <<PvdWrite("s.pvd", "s", <<>>)>>)

\* lines 106-108
HeatWriteTheta ==
    HeatStep("write_theta", "exact", heat_py.THETA_E,
             <<PvdWrite("theta.pvd", "theta", <<>>)>>)

\* lines 118-125
HeatInterpolateExact ==
    HeatStep("exact", "write_theta_e", interpolate(heat_py.vertices), <<>>)

\* lines 131-133
HeatWriteThetaE ==
    HeatStep("write_theta_e", "done", heat_py.THETA_E,
             <<PvdWrite("theta_e.pvd", "theta_e", heat_py.THETA_E)>>)

(***************************************************************************)
(* Initial states: the state __init__ leaves.                              *)
(***************************************************************************)
\* the parameters as the revision reads them: the output folder is a key
\* of its own in src/fenicsR13/src/solver.py
InputParams(i, prm) ==
    IF i = "src" THEN prm
    ELSE [x \in (DOMAIN prm \ {"case_name"}) \cup {"output_folder"} |->
             IF x = "output_folder" THEN "results/" ELSE prm[x]]

SolverState(i, prm, msh, t) ==
    /\ impl = i
    /\ params = InputParams(i, prm)
    /\ mesh = msh
    /\ time = t
    /\ elems = [v \in Vars |-> None]
    /\ fspaces = [v \in Vars |-> None]
    /\ mxd_elems = [m \in Modes |-> None]
    /\ mxd_fspaces = [m \in Modes |-> None]
    /\ form_a = None
    /\ form_b = None
    /\ sol = [v \in Vars |-> None]
    /\ esol = [v \in Vars |-> None]
    /\ errors = [f |-> [l2 |-> [v \in {"theta", "s"} |-> None]],
                 v |-> [linf |-> [v \in {"theta", "s"} |-> None]]]
    /\ df_ds = [kind |-> "Measure", type |-> "ds", subdomain_data |-> None]
    /\ df_dS = [kind |-> "Measure", type |-> "dS", subdomain_data |-> None]
    /\ last = Returned("__init__")

\* a Solver alone: no tensor function applied, no case script run
StartState(i, prm, msh, t) ==
    /\ SolverState(i, prm, msh, t)
    /\ tensor_in = None
    /\ tensor_out = None
    /\ heat_py = None

(***************************************************************************)
(* The inputs of the constructor.                                          *)
(***************************************************************************)
Shapes == {"Lagrange", "DG"}

\* element configurations: sigma has degree d, a variable of rank k the
\* degree k places further on, so that the ranks differ in degree
ElementConfig(shape, d) ==
    [v \in Vars |->
        [shape |-> shape,
         degree |-> IF v = "sigma" THEN d
                    ELSE ((d + var_ranks[v]) % MaxDegree) + 1]]

ElementConfigs == {ElementConfig(sh, d) : sh \in Shapes, d \in 1..MaxDegree}

\* boundary marker arrays: one or two facets
BoundaryArrays ==
    {<<a>> : a \in 0..MaxEdgeId} \cup
    {<<a, b>> : a \in 0..MaxEdgeId, b \in 0..MaxEdgeId}

\* the keys of params["bcs"]
BcsKeySets == SUBSET (1..MaxEdgeId)

\* the ways 1..MaxDofs degrees of freedom are owned by processes: each
\* process owns at least one
RECURSIVE Compositions(_)
Compositions(n) ==
    IF n = 0 THEN {<<>>}
    ELSE UNION {{<<k>> \o c : c \in Compositions(n - k)} : k \in 1..n}

Partitions == UNION {Compositions(n) : n \in 1..MaxDofs}

Params(mode, use_coeffs, use_cip, bcs, elements) ==
    [mode |-> mode, use_coeffs |-> use_coeffs, use_cip |-> use_cip,
     bcs |-> bcs, elements |-> elements, case_name |-> "case"]

Mesh(boundaries, partition) ==
    [cell |-> "triangle", boundaries |-> boundaries, partition |-> partition]

\* every mesh boundary array against every set of prescribed conditions
InitBcs ==
    \E i \in Impls, mode \in Modes, boundaries \in BoundaryArrays,
       bcs \in BcsKeySets :
        StartState(i, Params(mode, TRUE, FALSE, bcs, ElementConfig("Lagrange", 1)),
                   Mesh(boundaries, <<1>>), 0)

\* every mode, coefficient and stabilization switch
InitAssemble ==
    \E i \in Impls, mode \in Modes, use_coeffs \in BOOLEAN, use_cip \in BOOLEAN,
       bcs \in BcsKeySets :
        StartState(i, Params(mode, use_coeffs, use_cip, bcs,
                             ElementConfig("Lagrange", 1)),
                   Mesh(<<0, 1>>, <<1>>), 0)

\* every mode on every partition of the pressure vector
InitSolve ==
    \E i \in Impls, mode \in Modes, use_coeffs \in BOOLEAN,
       partition \in Partitions :
        StartState(i, Params(mode, use_coeffs, TRUE, {1},
                             ElementConfig("Lagrange", 1)),
                   Mesh(<<0, 1>>, partition), 0)

\* every element configuration and time
InitWrite ==
    \E i \in Impls, mode \in Modes, elements \in ElementConfigs, t \in 0..MaxTime :
        StartState(i, Params(mode, TRUE, FALSE, {1}, elements),
                   Mesh(<<0, 1>>, <<1>>), t)

Init == InitBcs \/ InitAssemble \/ InitSolve \/ InitWrite

Next ==
    \/ SetupFunctionSpaces
    \/ CheckBcs
    \/ Assemble
    \/ Solve
    \/ CalcSfMean
    \/ WriteXdmf
    \/ WriteSolutions
    \/ WriteParameters
    \/ LoadExactSolution
    \/ CalcErrors

Spec == Init /\ [][Next]_vars
SpecBcs == InitBcs /\ [][Next]_vars
SpecAssemble == InitAssemble /\ [][Next]_vars
SpecSolve == InitSolve /\ [][Next]_vars
SpecWrite == InitWrite /\ [][Next]_vars

(***************************************************************************)
(* The inputs of the tensor functions.                                     *)
(***************************************************************************)
\* tensor entries are the integers -MaxEntry..MaxEntry
MaxEntry == 1

Entries == {<<x, 1>> : x \in (-MaxEntry)..MaxEntry}

\* every 2x2 tensor
Tensors2 == [1..2 -> [1..2 -> Entries]]

\* the 2x2 tensors with one nonzero entry
Units2 ==
    {[i \in 1..2 |-> [j \in 1..2 |-> IF <<i, j>> = <<a, b>> THEN c ELSE Zero]] :
        a \in 1..2, b \in 1..2, c \in Entries \ {Zero}}

\* the rank-3 tensors with one nonzero entry
Units3(values) ==
    {[i \in 1..3 |-> [j \in 1..3 |-> [k \in 1..3 |->
         IF <<i, j, k>> = <<a, b, c>> THEN v ELSE Zero]]] :
        a \in 1..3, b \in 1..3, c \in 1..3, v \in values}

\* a rank-3 tensor without a zero pattern or a symmetry
Dense3 ==
    [i \in 1..3 |-> [j \in 1..3 |-> [k \in 1..3 |->
        <<((i + 2 * j + 4 * k) % (2 * MaxEntry + 1)) - MaxEntry, 1>>]]]

Zero2 == [i \in 1..2 |-> [j \in 1..2 |-> Zero]]

TensorInputs ==
    {[rank |-> 2, rank2_1 |-> b1, rank2_2 |-> b2,
      rank3_1 |-> Dense3, rank3_2 |-> Dense3] :
        b1 \in Tensors2, b2 \in Units2}
    \cup
    {[rank |-> 3, rank2_1 |-> Zero2, rank2_2 |-> Zero2,
      rank3_1 |-> x, rank3_2 |-> y] :
        x \in Units3(Entries \ {Zero}) \cup {Dense3},
        y \in Units3({One}) \cup {Dense3}}

\* the tensor functions are applied inside assemble of a Solver of
\* src/fenicsR13/src/solver.py
InitTensor ==
    /\ SolverState("fenicsR13",
                   Params("stress", TRUE, FALSE, {1}, ElementConfig("Lagrange", 1)),
                   Mesh(<<0, 1>>, <<1>>), 0)
    /\ tensor_in \in TensorInputs
    /\ tensor_out = None
    /\ heat_py = None

NextTensor ==
    \/ Gen3dTracefreeTensor
    \/ InnerOfTracefree2
    \/ Dev3
    \/ InnerOfDevOfGrad2AndGrad2

SpecTensor == InitTensor /\ [][NextTensor]_vars

(***************************************************************************)
(* The meshes of the case script.                                          *)
(***************************************************************************)
\* vertex coordinates are the integers 0..MaxCoord
MaxCoord == 2

\* the vertices of the ring: the origin is no point of it
Points == {<<x, y>> : x \in 0..MaxCoord, y \in 0..MaxCoord} \ {<<0, 0>>}

VertexLists == {<<a>> : a \in Points} \cup {<<a, b>> : a \in Points, b \in Points}

InitHeat ==
    /\ SolverState("src",
                   Params("heat", TRUE, FALSE, {1}, ElementConfig("Lagrange", 1)),
                   Mesh(<<0, 1>>, <<1>>), 0)
    /\ tensor_in = None
    /\ tensor_out = None
    /\ \E vertices \in VertexLists :
          heat_py = HeatScript("solve", vertices, None, <<>>)

NextHeat ==
    \/ HeatSolve
    \/ HeatWriteS
    \/ HeatWriteTheta
    \/ HeatInterpolateExact
    \/ HeatWriteThetaE

SpecHeat == InitHeat /\ [][NextHeat]_vars

(***************************************************************************)
(* Properties.                                                             *)
(***************************************************************************)
EdgeIds == Range(mesh.boundaries)
SetupDone == \A m \in Modes : mxd_fspaces[m] # None

\* C1 as stated: check_bcs returns normally only when every boundary id
\* occurring in the mesh's boundary marker array has an entry in
\* params["bcs"], and raises when any has none.
C1_EveryIdNeedsBcs ==
    last.op = "check_bcs" =>
        (last.outcome = "ok" <=> \A id \in EdgeIds : id \in params.bcs)

\* C1 amended: check_bcs returns normally exactly when every boundary id
\* other than 0 occurring in the array is a key of params["bcs"]; id 0
\* needs no entry.  When it raises, the message names the first id of the
\* array that is neither 0 nor a key.
C1_NonzeroIdsNeedBcs ==
    last.op = "check_bcs" =>
        /\ last.outcome = "ok" <=> \A id \in EdgeIds \ {0} : id \in params.bcs
        /\ last.outcome = "raised" =>
              \E k \in DOMAIN mesh.boundaries :
                 /\ mesh.boundaries[k] \notin {0} \cup params.bcs
                 /\ \A j \in 1..(k-1) : mesh.boundaries[j] \in {0} \cup params.bcs
                 /\ last.msg = "Mesh edge id " \o ToString(mesh.boundaries[k])
                                  \o " has no bcs!"

\* check_bcs returned on a mesh holding id 0 without a bcs entry beside an
\* id that has one
C1_Witness ==
    /\ last.op = "check_bcs"
    /\ last.outcome = "ok"
    /\ 0 \in EdgeIds
    /\ 0 \notin params.bcs
    /\ \E id \in EdgeIds : id # 0

\* C2 as stated: in src/src/solver.py, for every mode and either value of
\* use_coeffs, assemble called after setup_function_spaces on a mesh whose
\* boundary ids pass check_bcs completes without error and leaves form_a
\* and form_b set.
C2_AssembleSetsForms ==
    (/\ impl = "src"
     /\ last.op = "assemble"
     /\ SetupDone
     /\ \A id \in EdgeIds \ {0} : id \in params.bcs)
    => /\ last.outcome = "ok"
       /\ form_a # None
       /\ form_b # None

\* C3: when check_bcs raises, assemble raises the same exception and leaves
\* form_a, form_b and the module-global measures df.ds and df.dS as they
\* were.
C3_FailedCheckChangesNothing ==
    [][(Assemble /\ \E id \in EdgeIds \ {0} : id \notin params.bcs)
       => /\ last'.outcome = "raised"
          /\ \E id \in EdgeIds \ {0} :
                /\ id \notin params.bcs
                /\ last'.msg = "Mesh edge id " \o ToString(id) \o " has no bcs!"
          /\ form_a' = form_a
          /\ form_b' = form_b
          /\ df_ds' = df_ds
          /\ df_dS' = df_dS]_vars

\* assemble raised on the failed check, after the function spaces were set
\* up, on a fresh solver: no form, the measures still the framework's
C3_Witness ==
    /\ last.op = "assemble"
    /\ last.outcome = "raised"
    /\ \E id \in EdgeIds \ {0} : id \notin params.bcs
    /\ SetupDone
    /\ form_a = None
    /\ form_b = None
    /\ df_ds.subdomain_data = None
    /\ df_dS.subdomain_data = None

\* C4: in src/src/solver.py the mixed space of each mode is the product of
\* the field elements in the order (theta, s, p, u, sigma) (heat: (theta,
\* s), stress: (p, u, sigma)); every trial function of form_a is the
\* component of that space at its field's position; solve makes exactly one
\* linear solve, on that space, and every field of the solution is the
\* component at its own position, the pressure carrying the pressure
\* values.
C4_FieldsKeepTheirComponents ==
    LET order == [heat |-> <<"theta", "s">>,
                  stress |-> <<"p", "u", "sigma">>,
                  coupled |-> <<"theta", "s", "p", "u", "sigma">>]
        mine == order[params.mode]
    IN  impl = "src" =>
        /\ SetupDone =>
              \A m \in Modes :
                 /\ mxd_elems[m].of = order[m]
                 /\ mxd_elems[m].sub = [k \in DOMAIN order[m] |-> elems[order[m][k]]]
                 /\ mxd_fspaces[m].element = mxd_elems[m]
        /\ form_a # None =>
              \A t \in form_a.terms :
                 /\ t.tr \in Range(mine)
                 /\ t.trial = [space |-> params.mode, comp |-> IndexOf(mine, t.tr)]
        /\ (last.op = "solve" /\ last.outcome = "ok") =>
              /\ Len(last.solved) = 1
              /\ last.solved[1].space = mxd_fspaces[params.mode]
              /\ \A v \in Range(mine) : sol[v] # None
        /\ \A v \in Vars : sol[v] # None =>
              /\ v \in Range(mine)
              /\ sol[v].space.element = elems[v]
              /\ IF v = "p"
                 THEN [r \in DOMAIN sol[v].values |-> Len(sol[v].values[r])]
                         = mesh.partition
                 ELSE sol[v].origin = [space |-> params.mode,
                                       comp |-> IndexOf(mine, v)]

\* a coupled system was solved
C4_Witness ==
    /\ impl = "src"
    /\ params.mode = "coupled"
    /\ last.op = "solve"
    /\ last.outcome = "ok"
    /\ sol["theta"] # None
    /\ sol["sigma"] # None
    /\ Len(mesh.partition) > 1

\* C5 as stated: after a solve that solved the system, in stress or coupled
\* mode sol["p"] is a function of its own in fspaces["p"], each value the
\* solved pressure value minus the mean of all solved pressure values, so
\* that the values have zero mean; in heat mode no pressure is produced.
C5_PressureHasZeroMean ==
    (last.op = "solve" /\ last.outcome = "ok" /\ last.solved # <<>>) =>
        IF params.mode \in {"stress", "coupled"}
        THEN LET flat == Flatten(last.raw)
                 total == RatSum(flat)
                 size == Len(flat)
             IN  /\ sol["p"] # None
                 /\ sol["p"].space = fspaces["p"]
                 /\ sol["p"].origin = [space |-> "none", comp |-> 0]
                 /\ DOMAIN sol["p"].values = DOMAIN last.raw
                 /\ \A r \in DOMAIN last.raw :
                       /\ DOMAIN sol["p"].values[r] = DOMAIN last.raw[r]
                       /\ \A k \in DOMAIN last.raw[r] :
                             sol["p"].values[r][k][1] * size * total[2] =
                                sol["p"].values[r][k][2]
                                   * (last.raw[r][k][1] * size * total[2] - total[1])
                 /\ RatSum(Flatten(sol["p"].values)) = <<0, 1>>
        ELSE /\ sol["p"] = None
             /\ last.mean = <<>>

\* C6: in src/src/solver.py calc_sf_mean returns, on every process, the sum
\* of all values of the vector divided by their number, whatever the
\* partition of the vector over the processes.
C6_MeanIsGlobal ==
    (impl = "src" /\ last.mean # <<>>) =>
        LET flat == Flatten(last.raw)
            total == RatSum(flat)
            size == Len(flat)
        IN  /\ DOMAIN last.mean = DOMAIN mesh.partition
            /\ \A r \in DOMAIN last.mean :
                  /\ last.mean[r][1] * size * total[2] = total[1] * last.mean[r][2]
                  /\ last.mean[r] = last.mean[1]

\* the mean was taken of a vector owned by several processes, and differs
\* from the mean of the values one of them owns
C6_Witness ==
    /\ impl = "src"
    /\ last.op = "solve"
    /\ last.mean # <<>>
    /\ Len(mesh.partition) > 1
    /\ \E r \in DOMAIN last.raw :
          RatDivInt(RatSum(last.raw[r]), Len(last.raw[r])) # last.mean[r]

\* C7: the interior-facet terms of form_a are decided by use_cip alone:
\* none when it is false; when it is true the heat form holds exactly the
\* temperature jump term weighted by -delta_1*h_avg^3 and the stress form
\* exactly the velocity jump term weighted by +delta_2*h_avg^3 and the
\* pressure jump term weighted by -delta_3*h_avg (the coupled form all
\* three); form_b holds no facet or stabilization term.
C7_CipTerms ==
    LET heat == {[coeff |-> "-delta_1*h_avg**3",
                  expr |-> "jump(grad(theta),n)*jump(grad(kappa),n)",
                  tr |-> "theta", te |-> "kappa"]}
        stress == {[coeff |-> "+delta_2*h_avg**3",
                    expr |-> "dot(jump(grad(u),n),jump(grad(v),n))",
                    tr |-> "u", te |-> "v"],
                   [coeff |-> "-delta_3*h_avg",
                    expr |-> "jump(grad(p),n)*jump(grad(q),n)",
                    tr |-> "p", te |-> "q"]}
        expected == IF ~params.use_cip THEN {}
                    ELSE (IF params.mode \in {"heat", "coupled"} THEN heat ELSE {})
                         \cup (IF params.mode \in {"stress", "coupled"} THEN stress ELSE {})
    IN  /\ form_a # None =>
              LET facet == {t \in form_a.terms : t.measure = "dS"}
              IN  /\ {[coeff |-> t.coeff, expr |-> t.expr, tr |-> t.tr, te |-> t.te] :
                         t \in facet} = expected
                  /\ Cardinality(facet) = Cardinality(expected)
                  /\ \A t \in form_a.terms :
                        t.eq \in {"stab_heat", "stab_stress"} <=> t.measure = "dS"
        /\ form_b # None =>
              \A t \in form_b.terms :
                 t.measure # "dS" /\ t.eq \notin {"stab_heat", "stab_stress"}

\* a coupled form assembled with stabilization
C7_Witness ==
    /\ params.use_cip
    /\ params.mode = "coupled"
    /\ form_a # None
    /\ form_b # None
    /\ Cardinality({t \in form_a.terms : t.measure = "dS"}) = 3

\* C8 as stated: write_xdmf never writes a symmetric tensor field.
C8_NoSymmetricTensorWritten ==
    \A k \in DOMAIN last.written :
       ~(/\ last.written[k].field.space.element.kind = "TensorElement"
         /\ last.written[k].field.space.element.symmetry)

\* C8 amended: a field whose element is the symmetric Lagrange tensor
\* element on triangles of a degree d in 1..5 is projected exactly once,
\* into the non-symmetric Lagrange tensor space of degree d, and that
\* projection is written; a field of any other element, a symmetric tensor
\* element of another degree or family included, is written as it is,
\* without projection.
C8_SymmetricLagrangeProjected ==
    \A k \in DOMAIN last.written :
       LET w == last.written[k]
           g == w.given
       IN  IF /\ g.kind = "TensorElement"
              /\ g.symmetry
              /\ g.family = "Lagrange"
              /\ g.cell = "triangle"
              /\ g.degree \in 1..5
           THEN /\ w.projections = 1
                /\ w.field.space.element =
                      [kind |-> "TensorElement", family |-> "Lagrange",
                       cell |-> "triangle", degree |-> g.degree,
                       symmetry |-> FALSE]
           ELSE /\ w.projections = 0
                /\ w.field.space.element = g

\* a symmetric Lagrange tensor field of degree 5, the last degree tested,
\* was written
C8_Witness ==
    \E k \in DOMAIN last.written :
       /\ last.written[k].given.kind = "TensorElement"
       /\ last.written[k].given.symmetry
       /\ last.written[k].given.family = "Lagrange"
       /\ last.written[k].given.degree = 5
       /\ last.written[k].projections = 1

\* C9: write_xdmf(name, field) writes exactly one file, named
\* output_folder + name + "_" + str(time) + ".xdmf"; the field written has
\* name and label name and the solver's time as its time stamp.
C9_OneFileNamedAndStamped ==
    /\ last.op = "write_xdmf" => Len(last.written) = 1
    /\ \A k \in DOMAIN last.written :
          LET w == last.written[k]
          IN  /\ w.filename =
                     (IF impl = "src" THEN params.case_name \o "/"
                      ELSE params.output_folder)
                     \o w.name \o "_" \o ToString(time) \o ".xdmf"
              /\ w.field.name = w.name
              /\ w.field.label = w.name
              /\ w.timestamp = time

\* write_xdmf wrote a file at a time other than 0
C9_Witness ==
    /\ last.op = "write_xdmf"
    /\ time = 1
    /\ Len(last.written) = 1
    /\ last.written[1].name = "difference_theta"
    /\ last.written[1].filename = "case/difference_theta_1.xdmf"

\* C10: once setup_function_spaces has run, each of theta, s, p, u, sigma
\* has an element of the configured shape and degree and of the kind of its
\* rank (scalar for theta and p, vector for s and u, symmetric tensor for
\* sigma) and a function space of that element, and the heat, stress and
\* coupled mixed elements and spaces are set.
C10_SpacesBuilt ==
    (last.op = "setup_function_spaces" \/ \E v \in Vars : elems[v] # None) =>
        /\ \A v \in Vars :
              /\ elems[v] # None
              /\ fspaces[v] # None
              /\ elems[v].kind = (CASE v \in {"theta", "p"} -> "FiniteElement"
                                    [] v \in {"s", "u"} -> "VectorElement"
                                    [] v = "sigma" -> "TensorElement")
              /\ elems[v].symmetry = (v = "sigma")
              /\ elems[v].family = params.elements[v].shape
              /\ elems[v].degree = params.elements[v].degree
              /\ elems[v].cell = mesh.cell
              /\ fspaces[v].element = elems[v]
        /\ \A m \in Modes :
              /\ mxd_elems[m] # None
              /\ mxd_fspaces[m] # None
              /\ mxd_fspaces[m].element = mxd_elems[m]

\* the spaces were set up from a configuration in which sigma and theta
\* differ in degree
C10_Witness ==
    /\ last.op = "setup_function_spaces"
    /\ elems["sigma"] # None
    /\ params.elements["sigma"].degree # params.elements["theta"].degree
    /\ elems["sigma"].degree = params.elements["sigma"].degree

\* C11: in src/src/solver.py load_exact_solution sets esol for exactly the
\* fields of the mode, and a calc_errors that completes stores an L2
\* function error in errors["f"]["l2"][field] and an l-infinity vector error
\* in errors["v"]["linf"][field] for exactly those fields (theta and s in
\* heat mode, p, u and sigma in stress mode, all five in coupled mode); the
\* entries of the other fields, present or absent, stay as they were.
C11_ErrorsOfModeFields ==
    [][impl = "src" =>
         LET F == CASE params.mode = "heat" -> {"theta", "s"}
                    [] params.mode = "stress" -> {"p", "u", "sigma"}
                    [] params.mode = "coupled" -> Vars
             Kept(d, e, v) == /\ (v \in DOMAIN e) = (v \in DOMAIN d)
                              /\ v \in DOMAIN d => e[v] = d[v]
         IN  /\ LoadExactSolution =>
                   \A v \in Vars : IF v \in F
                                   THEN /\ esol'[v] # None
                                        /\ esol'[v].kind = "CompiledExpression"
                                   ELSE esol'[v] = esol[v]
             /\ (CalcErrors /\ last'.outcome = "ok") =>
                   \A v \in Vars :
                      IF v \in F
                      THEN /\ v \in DOMAIN errors'.f.l2
                           /\ v \in DOMAIN errors'.v.linf
                           /\ errors'.f.l2[v] # None
                           /\ errors'.v.linf[v] # None
                           /\ errors'.f.l2[v].norm = "L2"
                           /\ errors'.v.linf[v].norm = "linf"
                           /\ errors'.f.l2[v].field = v
                           /\ errors'.v.linf[v].field = v
                      ELSE /\ Kept(errors.f.l2, errors'.f.l2, v)
                           /\ Kept(errors.v.linf, errors'.v.linf, v)
    ]_vars

\* calc_errors completed in stress mode after solve and load_exact_solution:
\* the errors of p, u and sigma are stored, those of theta and s are still
\* None
C11_Witness ==
    /\ impl = "src"
    /\ params.mode = "stress"
    /\ last.op = "calc_errors"
    /\ last.outcome = "ok"
    /\ esol["p"] # None
    /\ esol["theta"] = None
    /\ DOMAIN errors.f.l2 = Vars
    /\ errors.f.l2["sigma"] # None
    /\ errors.v.linf["theta"] = None

\* C12: gen3dTracefreeTensor(B) is a 3x3 tensor whose upper-left 2x2 block
\* is B, whose other off-diagonal entries are 0 and whose trace is zero, for
\* every 2x2 tensor B.
C12_Gen3dIsTracefree ==
    (tensor_out # None /\ tensor_out.op = "gen3dTracefreeTensor") =>
        LET A == tensor_out.value
            B == tensor_in.rank2_1
        IN  /\ DOMAIN A = 1..3
            /\ \A i \in 1..3 : DOMAIN A[i] = 1..3
            /\ \A i \in 1..2 : \A j \in 1..2 : A[i][j] = B[i][j]
            /\ A[1][3] = Zero
            /\ A[2][3] = Zero
            /\ A[3][1] = Zero
            /\ A[3][2] = Zero
            /\ RatSum(<<A[1][1], A[2][2], A[3][3]>>) = Zero

\* the function was applied to a tensor with a nonzero trace, nonzero
\* off-diagonal entries and b_yx different from b_xx
C12_Witness ==
    /\ tensor_out # None
    /\ tensor_out.op = "gen3dTracefreeTensor"
    /\ RatAdd(tensor_in.rank2_1[1][1], tensor_in.rank2_1[2][2]) # Zero
    /\ tensor_in.rank2_1[1][2] # Zero
    /\ tensor_in.rank2_1[2][1] # tensor_in.rank2_1[1][1]
    /\ tensor_out.value[3][3] # Zero

\* C13 as stated: gen3dTracefreeTensor(B) is the matrix of its docstring,
\* with rows (b_xx, b_xy, 0), (b_yx, b_yy, 0) and (0, 0, -(b_yx + b_yy)).
C13_Gen3dIsDocstringMatrix ==
    (tensor_out # None /\ tensor_out.op = "gen3dTracefreeTensor") =>
        LET B == tensor_in.rank2_1
        IN  tensor_out.value =
               <<<<B[1][1], B[1][2], Zero>>,
                 <<B[2][1], B[2][2], Zero>>,
                 <<Zero, Zero, RatNeg(RatAdd(B[2][1], B[2][2]))>>>>

\* C14: innerOfTracefree2(A, B) is the inner product of the 3x3 tensors
\* gen3dTracefreeTensor(A) and gen3dTracefreeTensor(B), for all 2x2 tensors.
C14_InnerIsInner3d ==
    (tensor_out # None /\ tensor_out.op = "innerOfTracefree2") =>
        tensor_out.value =
           InnerRank2(gen3dTracefreeTensor(tensor_in.rank2_1),
                      gen3dTracefreeTensor(tensor_in.rank2_2))

\* the product was taken of two tensors whose zz parts contribute: it
\* differs from the 2D inner product
C14_Witness ==
    /\ tensor_out # None
    /\ tensor_out.op = "innerOfTracefree2"
    /\ tensor_in.rank2_1[1][1] # Zero
    /\ tensor_in.rank2_1[1][2] # Zero
    /\ tensor_in.rank2_2[2][2] # Zero
    /\ tensor_out.value # InnerRank2(tensor_in.rank2_1, tensor_in.rank2_2)

\* C15: dev3(T) is invariant under every permutation of its three indices,
\* trace-free in every pair of indices, and dev3(dev3(T)) = dev3(T).
C15_Dev3IsDeviator ==
    (tensor_out # None /\ tensor_out.op = "dev3") =>
        LET D == tensor_out.value
        IN  /\ \A i \in 1..3 : \A j \in 1..3 : \A k \in 1..3 :
                  /\ D[i][j][k] = D[j][i][k]
                  /\ D[i][j][k] = D[i][k][j]
                  /\ D[i][j][k] = D[k][j][i]
                  /\ D[i][j][k] = D[j][k][i]
                  /\ D[i][j][k] = D[k][i][j]
            /\ \A i \in 1..3 :
                  /\ RatSum([l \in 1..3 |-> D[i][l][l]]) = Zero
                  /\ RatSum([l \in 1..3 |-> D[l][i][l]]) = Zero
                  /\ RatSum([l \in 1..3 |-> D[l][l][i]]) = Zero
            /\ dev3(D) = D

\* dev3 was applied to a tensor with a nonzero trace that is not symmetric:
\* the deviator is neither the tensor nor zero
C15_Witness ==
    /\ tensor_out # None
    /\ tensor_out.op = "dev3"
    /\ tensor_in.rank3_1 = Dense3
    /\ \E i \in 1..3 : sym3_ill(tensor_in.rank3_1, i) # Zero
    /\ tensor_out.value # tensor_in.rank3_1
    /\ tensor_out.value # sym3(tensor_in.rank3_1)
    /\ \E i \in 1..3 : \E j \in 1..3 : \E k \in 1..3 :
          tensor_out.value[i][j][k] # Zero

\* C16: inner(dev3(X), Y), as innerOfDevOfGrad2AndGrad2 computes it, equals
\* inner(dev3(X), dev3(Y)) for all rank-3 tensors X and Y.
C16_DevOfSecondIsSame ==
    (tensor_out # None /\ tensor_out.op = "innerOfDevOfGrad2AndGrad2") =>
        tensor_out.value =
           InnerRank3(dev3(tensor_in.rank3_1), dev3(tensor_in.rank3_2))

\* the product was taken with a second tensor that is not its own deviator,
\* and is not zero
C16_Witness ==
    /\ tensor_out # None
    /\ tensor_out.op = "innerOfDevOfGrad2AndGrad2"
    /\ dev3(tensor_in.rank3_2) # tensor_in.rank3_2
    /\ tensor_in.rank3_1 # tensor_in.rank3_2
    /\ tensor_out.value # Zero

\* C17 as stated: the field heat.py writes to theta_e.pvd is the analytical
\* solution of the module docstring at every vertex: the same expression in
\* r with the natural logarithm of r, the constants C1 = -0.40855... and
\* C2 = 2.44715..., and the tau of the solved system.
C17_ThetaEIsDocumentedSolution ==
    (heat_py # None /\ heat_py.pc = "done") =>
        \E w \in Range(heat_py.files) :
           /\ w.file = "theta_e.pvd"
           /\ DOMAIN w.values = DOMAIN heat_py.vertices
           /\ \A k \in DOMAIN heat_py.vertices :
                 LET x == heat_py.vertices[k][1]
                     y == heat_py.vertices[k][2]
                     r2 == x * x + y * y
                     denom == RatMul(<<75, 1>>, TAU)
                     v == w.values[k]
                 IN  /\ v.poly =
                           RatDiv(RatSub(Rat(5 * r2 * r2, 4),
                                         RatMul(<<2 * r2, 1>>,
                                                RatAdd(RatMul(<<24, 1>>,
                                                              RatMul(TAU, TAU)),
                                                       <<5, 1>>))),
                                  denom)
                     /\ r2 # 1 => /\ v.log_fn = "ln"
                                  /\ v.log_coeff = RatDiv(<<-20, 1>>, denom)
                     /\ r2 = 1 => v.log_coeff = Zero
                     /\ v.c1.sign = "-"
                     /\ v.c1.whole = "0"
                     /\ SubSeq(v.c1.digits, 1, 5) = <<4, 0, 8, 5, 5>>
                     /\ v.c2.sign = "+"
                     /\ v.c2.whole = "2"
                     /\ SubSeq(v.c2.digits, 1, 5) = <<4, 4, 7, 1, 5>>

====
